---- MODULE Spec2Model ----
(***************************************************************************)
(* XorWeyMixPRNG (src/PRNG_Algorithm.py.py) as a state machine.            *)
(*                                                                         *)
(* Python integers are modelled exactly.  TLC's own integers are 32 bits   *)
(* wide, so an integer n >= 0 is held as its nine base-256 digits, least   *)
(* significant first (72 bits).  Every value the generator computes is     *)
(* below 2^72 after the source's own "& MASK64"; a shift or a product that *)
(* Python would compute in full is cut to 72 bits here, and the source     *)
(* masks it to 64 bits right away, so no bit that matters is lost.         *)
(***************************************************************************)
EXTENDS Integers, Sequences, FiniteSets, Bags, TLC

(***************************************************************************)
(* State                                                                   *)
(***************************************************************************)
VARIABLES
    gen,    \* gen[i]: the attributes of generator object i
    pc,     \* where the running call stands: "idle" between calls
    fr,     \* the locals of the randint call in progress
    lst,    \* the sequence passed to the choice or shuffle call
    idx,    \* shuffle's loop variable i
    ret,    \* the value the last call returned
    err,    \* the exception the last call raised, "none" if it returned
    hist,   \* history, per object: seed, raw steps and raw outputs since
    call    \* history: the last call of the caller, and the object before it

(***************************************************************************)
(* Python's integers                                                       *)
(***************************************************************************)
Limbs == 1..9
Number == [Limbs -> 0..255]

\* The arithmetic below is written as functions, not operators: TLC applies
\* a function to the value of its argument, computed once.

Digit(x, i) == IF i \in Limbs THEN x[i] ELSE 0

Pow2(k) == 2^k

\* Carry propagation: digits that may exceed 255 brought back to base 256
\* (the carry out of the ninth digit is dropped).
DigitSums == [Limbs -> Nat]
Carry[d \in DigitSums, i \in 1..10, c \in Nat] ==
    IF i > 9 THEN <<>>
    ELSE <<(d[i] + c) % 256>> \o Carry[d, i + 1, (d[i] + c) \div 256]

Zero == <<0, 0, 0, 0, 0, 0, 0, 0, 0>>
One == <<1, 0, 0, 0, 0, 0, 0, 0, 0>>

\* A small TLC integer (0 .. 2^24) as a number of the model.
Num(n) == Carry[<<n, 0, 0, 0, 0, 0, 0, 0, 0>>, 1, 0]

\* A 64-bit literal of the source, written as its eight bytes, most
\* significant first: 0x9E37... is Hex64(<<\h9E, \h37, ...>>).
Hex64(b) == <<b[8], b[7], b[6], b[5], b[4], b[3], b[2], b[1], 0>>

\* Bitwise operations on 4-bit halves of a digit.
BitOf(n, k) == (n \div Pow2(k)) % 2
XorNibble == [p \in 0..15 |-> [q \in 0..15 |->
    ((BitOf(p, 0) + BitOf(q, 0)) % 2) + 2 * ((BitOf(p, 1) + BitOf(q, 1)) % 2)
    + 4 * ((BitOf(p, 2) + BitOf(q, 2)) % 2) + 8 * ((BitOf(p, 3) + BitOf(q, 3)) % 2)]]
AndNibble == [p \in 0..15 |-> [q \in 0..15 |->
    (BitOf(p, 0) * BitOf(q, 0)) + 2 * (BitOf(p, 1) * BitOf(q, 1))
    + 4 * (BitOf(p, 2) * BitOf(q, 2)) + 8 * (BitOf(p, 3) * BitOf(q, 3))]]

\* x ^ y
Xor[x \in Number, y \in Number] ==
    LET D(i) == 16 * XorNibble[x[i] \div 16][y[i] \div 16]
                + XorNibble[x[i] % 16][y[i] % 16]
    IN <<D(1), D(2), D(3), D(4), D(5), D(6), D(7), D(8), D(9)>>

\* x & y
And[x \in Number, y \in Number] ==
    LET D(i) == 16 * AndNibble[x[i] \div 16][y[i] \div 16]
                + AndNibble[x[i] % 16][y[i] % 16]
    IN <<D(1), D(2), D(3), D(4), D(5), D(6), D(7), D(8), D(9)>>

\* x << k
Shl[x \in Number, k \in 0..72] ==
    LET D(i) == ((Digit(x, i - (k \div 8)) * Pow2(k % 8)) % 256)
                + (Digit(x, i - (k \div 8) - 1) \div Pow2(8 - (k % 8)))
    IN <<D(1), D(2), D(3), D(4), D(5), D(6), D(7), D(8), D(9)>>

\* x >> k
Shr[x \in Number, k \in 0..72] ==
    LET D(i) == (Digit(x, i + (k \div 8)) \div Pow2(k % 8))
                + ((Digit(x, i + (k \div 8) + 1) * Pow2(8 - (k % 8))) % 256)
    IN <<D(1), D(2), D(3), D(4), D(5), D(6), D(7), D(8), D(9)>>

\* x + y
Add[x \in Number, y \in Number] ==
    LET D(i) == x[i] + y[i]
    IN Carry[<<D(1), D(2), D(3), D(4), D(5), D(6), D(7), D(8), D(9)>>, 1, 0]

\* x - y, for x >= y (255 - y[i] is the digit of the complement).
Sub[x \in Number, y \in Number] ==
    LET D(i) == x[i] + (255 - y[i])
    IN Carry[<<D(1), D(2), D(3), D(4), D(5), D(6), D(7), D(8), D(9)>>, 1, 1]

\* x * y
Mul[x \in Number, y \in Number] ==
    LET P[i \in Limbs, j \in 1..10] ==
            IF j > i THEN 0 ELSE x[j] * y[i - j + 1] + P[i, j + 1]
        D(i) == P[i, 1]
    IN Carry[<<D(1), D(2), D(3), D(4), D(5), D(6), D(7), D(8), D(9)>>, 1, 0]

\* x < y
Lt[x \in Number, y \in Number] ==
    LET L[i \in 0..9] ==
            IF i = 0 THEN FALSE
            ELSE IF x[i] # y[i] THEN x[i] < y[i]
            ELSE L[i - 1]
    IN L[9]

\* x <= y, x > y
Le(x, y) == ~Lt[y, x]
Gt(x, y) == Lt[y, x]

\* int.bit_length(): the number of bits of x, 0 for x = 0.
bit_length[x \in Number] ==
    LET S[n \in 0..255] == IF n = 0 THEN 0 ELSE 1 + S[n \div 2]
        B[i \in 0..9] ==
            IF i = 0 THEN 0
            ELSE IF x[i] # 0 THEN 8 * (i - 1) + S[x[i]]
            ELSE B[i - 1]
    IN B[9]

\* MASK64 = (1 << 64) - 1
MASK64 == Sub[Shl[One, 64], One]

\* 0xFFFFFFFFFFFFFFFF, 0x9E3779B97F4A7C15, 0xBF58476D1CE4E5B9,
\* 0x94D049BB133111EB and 0xFACEB00CDEADBEEF
ALL_ONES == Hex64(<<\hFF, \hFF, \hFF, \hFF, \hFF, \hFF, \hFF, \hFF>>)
GOLDEN == Hex64(<<\h9E, \h37, \h79, \hB9, \h7F, \h4A, \h7C, \h15>>)
MIX1 == Hex64(<<\hBF, \h58, \h47, \h6D, \h1C, \hE4, \hE5, \hB9>>)
MIX2 == Hex64(<<\h94, \hD0, \h49, \hBB, \h13, \h31, \h11, \hEB>>)
WEYL_SALT == Hex64(<<\hFA, \hCE, \hB0, \h0C, \hDE, \hAD, \hBE, \hEF>>)

\* def splitmix64(x), nested in seed()
splitmix64[x0 \in Number] ==
    LET line1[x \in Number] == And[Add[x, GOLDEN], MASK64]
        line2[x \in Number] == And[Mul[Xor[x, Shr[x, 30]], MIX1], MASK64]
        line3[x \in Number] == And[Mul[Xor[x, Shr[x, 27]], MIX2], MASK64]
        line4[x \in Number] == Xor[x, Shr[x, 31]]
    IN line4[line3[line2[line1[x0]]]]

\* Mutant of or_1: the "or 1" left out.
or_1_dropped(v) == v

\* "v or 1": Python's `or` yields its right operand when the left one is 0.
or_1(v) == IF v = Zero THEN One ELSE v

\* An object before seed() has run: no attribute is set yet.
Unset == <<>>
Blank == [state |-> Unset, weyl |-> Unset, weyl_step |-> Unset, counter |-> Unset]

\* Mutant of seed: the counter is set by the first seed() only, a reseed
\* keeps it.
seed_keeps_counter(g, sd) ==
    LET s == And[sd, MASK64]
    IN [g EXCEPT !.state = IF splitmix64[s] = Zero THEN One ELSE splitmix64[s],
                 !.weyl = IF splitmix64[Xor[s, WEYL_SALT]] = Zero THEN One
                          ELSE splitmix64[Xor[s, WEYL_SALT]],
                 !.weyl_step = GOLDEN,
                 !.counter = IF g.counter = Unset THEN Zero ELSE g.counter]

\* XorWeyMixPRNG.seed(self, seed): g is the object, sd the argument.
seed(g, sd) ==
    LET s == And[sd, MASK64]
    IN [g EXCEPT !.state = or_1(splitmix64[s]),
                 !.weyl = or_1(splitmix64[Xor[s, WEYL_SALT]]),
                 !.weyl_step = GOLDEN,
                 !.counter = Zero]

\* XorWeyMixPRNG.__init__(self, seed) with a seed given; without one the
\* seed is int(time.time_ns()) & MASK64, some 64-bit value.
construct(sd) == seed(Blank, sd)

\* The nonlinear scramble of _step.
scramble[z0 \in Number] ==
    LET line1[z \in Number] == And[Xor[z, Shr[z, 30]], MASK64]
        line2[z \in Number] == And[Mul[z, MIX1], MASK64]
        line3[z \in Number] == And[Xor[z, Shr[z, 27]], MASK64]
        line4[z \in Number] == And[Mul[z, MIX2], MASK64]
        line5[z \in Number] == Xor[z, Shr[z, 31]]
    IN And[line5[line4[line3[line2[line1[z0]]]]], MASK64]

\* The xorshift update of _step: the local x after "x &= MASK64".
xorshift[x0 \in Number] ==
    LET line1[x \in Number] == Xor[x, And[Shl[x, 13], MASK64]]
        line2[x \in Number] == Xor[x, And[Shr[x, 7], MASK64]]
        line3[x \in Number] == Xor[x, And[Shl[x, 17], MASK64]]
    IN And[line3[line2[line1[x0]]], MASK64]

\* Mutant of combine: the counter left out of the sum.
combine_without_counter(x, weyl, counter) == And[Add[x, weyl], MASK64]

\* Mutant of weyl_advance: the sum is not reduced modulo 2^64.
weyl_advance_unmasked(weyl, weyl_step) == Add[weyl, weyl_step]

\* self._weyl = (self._weyl + self._weyl_step) & MASK64
weyl_advance(weyl, weyl_step) == And[Add[weyl, weyl_step], MASK64]

\* The combine of _step: z = (x + self._weyl + self._counter) & MASK64, with
\* x the local of the xorshift update and weyl already advanced.
combine(x, weyl, counter) == And[Add[Add[x, weyl], counter], MASK64]

\* XorWeyMixPRNG._step(self): the object after the call (g), the value
\* combined before the scramble (z) and the value returned (out).
_step(g0) ==
    LET x == xorshift[g0.state]
        weyl == weyl_advance(g0.weyl, g0.weyl_step)
        z == combine(x, weyl, g0.counter)
    IN [g |-> [g0 EXCEPT !.state = IF x # Zero THEN x ELSE ALL_ONES,
                         !.weyl = weyl,
                         !.counter = And[Add[g0.counter, One], MASK64]],
        z |-> z,
        out |-> scramble[z]]

\* Mutant of rand_uint64: the counter is an attribute of the class, shared
\* by its objects, not of the object.
rand_uint64_shared(g0) ==
    _step([g0 EXCEPT !.counter = Add[gen[1].counter, gen[2].counter]])

\* XorWeyMixPRNG.rand_uint64(self)
rand_uint64(g0) == _step(g0)

\* Mutant of rejection_mask: one bit too many.
rejection_mask_wide(width) == Sub[Shl[One, bit_length[width] + 1], One]

\* (1 << width.bit_length()) - 1, the mask of randint
rejection_mask(width) == Sub[Shl[One, bit_length[width]], One]

\* Mutant of invalid_range: the check left out.
invalid_range_unchecked(a, b) == FALSE

\* "if a > b" of randint
invalid_range(a, b) == Gt(a, b)

\* Mutant of accepted: r <= width.
accepted_inclusive(r, width) == ~Lt[width, r]

\* "if r < width" of randint's loop
accepted(r, width) == Lt[r, width]

\* "if not seq" of choice
empty_seq(s) == Len(s) = 0

\* randint up to its loop: the exception raised, the fallback branch, or
\* the locals the rejection loop runs with.
randint_entry(a, b) ==
    IF invalid_range(a, b) THEN [kind |-> "raise", width |-> Zero, mask |-> Zero]
    ELSE LET width == Add[Sub[b, a], One]
         IN IF Le(width, Zero)
            THEN [kind |-> "fallback", width |-> width, mask |-> Zero]
            ELSE [kind |-> "loop", width |-> width, mask |-> rejection_mask(width)]

\* Mutant of swap: lst[i] = lst[j] alone.
swap_overwrite(l, i, j) == [l EXCEPT ![i + 1] = l[j + 1]]

\* lst[i], lst[j] = lst[j], lst[i] (i and j counted from 0)
swap(l, i, j) == [l EXCEPT ![i + 1] = l[j + 1], ![j + 1] = l[i + 1]]

\* A number below 2^16 of the model as a TLC integer (a list index).
Index(x) == x[1] + 256 * x[2]

(***************************************************************************)
(* Bounds and inputs                                                       *)
(***************************************************************************)
MaxSteps == 2
MaxInt == 2
MaxLen == 3

\* The seed of the self-test, the seed 0, and the two seeds for which
\* splitmix64 yields 0 for state and for weyl ("or 1" acts).
SEED_DEMO == Hex64(<<0, 0, 0, 0, \h07, \h5B, \hCD, \h15>>)
SEED_ZERO_STATE == Sub[Shl[One, 64], GOLDEN]
SEED_ZERO_WEYL == Xor[SEED_ZERO_STATE, WEYL_SALT]
Seeds == {SEED_DEMO, Zero, SEED_ZERO_STATE, SEED_ZERO_WEYL}

\* Arguments of randint: small integers, 2^63 and 2^64 - 1.
Ints == {Num(n) : n \in 0..MaxInt} \cup {Shl[One, 63], ALL_ONES}

\* Arguments of choice and shuffle.
Elems == {"p", "q"}
Lists == UNION {[1..n -> Elems] : n \in 0..MaxLen}

Inst == {1, 2}

vars == <<gen, pc, fr, lst, idx, ret, err, hist, call>>

NoFrame == [self |-> 0, a |-> Zero, b |-> Zero, width |-> Zero, mask |-> Zero,
            caller |-> "none", val |-> Zero]
\* A value returned: a number (val) or, from choice, an element (elem).
NoRet == [op |-> "none", val |-> Zero, elem |-> ""]

\* The history of an object that seed(sd) has just left as g.
Seeded(sd, g) == [seed |-> sd, weyl0 |-> g.weyl, steps |-> 0, outs |-> <<>>,
                  reseeded |-> FALSE, z |-> Zero]

\* Two objects constructed, the second one with a seed of Seeds2.
InitWith(Seeds2) ==
    /\ \E s1 \in Seeds, s2 \in Seeds2 :
          /\ gen = [i \in Inst |-> construct(IF i = 1 THEN s1 ELSE s2)]
          /\ hist = [i \in Inst |-> Seeded(IF i = 1 THEN s1 ELSE s2, gen[i])]
    /\ pc = "idle"
    /\ fr = NoFrame
    /\ lst = <<>>
    /\ idx = 0
    /\ ret = NoRet
    /\ err = "none"
    /\ call = [op |-> "construct", self |-> 0, a |-> Zero, b |-> Zero,
               arg |-> <<>>, pre |-> Blank]

Called(op, i, a, b, arg) ==
    [op |-> op, self |-> i, a |-> a, b |-> b, arg |-> arg, pre |-> gen[i]]

\* One raw step of object i, d its result.
Stepped(i, d) ==
    /\ gen' = [gen EXCEPT ![i] = d.g]
    /\ hist' = [hist EXCEPT ![i] = [@ EXCEPT !.steps = @ + 1,
                                             !.outs = Append(@, d.out),
                                             !.z = d.z]]

\* pr.seed(sd)
Seed(i, sd) ==
    /\ pc = "idle"
    /\ gen' = [gen EXCEPT ![i] = seed(@, sd)]
    /\ hist' = [hist EXCEPT ![i] = [Seeded(sd, gen'[i]) EXCEPT !.reseeded = TRUE]]
    /\ call' = Called("seed", i, sd, Zero, <<>>)
    /\ ret' = NoRet
    /\ err' = "none"
    /\ lst' = <<>>
    /\ UNCHANGED <<pc, fr, idx>>

\* pr.rand_uint64()
RandUint64(i) ==
    /\ pc = "idle"
    /\ hist[i].steps < MaxSteps
    /\ \E d \in {rand_uint64(gen[i])} :
          /\ Stepped(i, d)
          /\ ret' = [NoRet EXCEPT !.op = "rand_uint64", !.val = d.out]
    /\ call' = Called("rand_uint64", i, Zero, Zero, <<>>)
    /\ err' = "none"
    /\ lst' = <<>>
    /\ UNCHANGED <<pc, fr, idx>>

\* pr.rand(): the float returned is val / 2^53.
Rand(i) ==
    /\ pc = "idle"
    /\ hist[i].steps < MaxSteps
    /\ \E d \in {rand_uint64(gen[i])} :
          /\ Stepped(i, d)
          /\ ret' = [NoRet EXCEPT !.op = "rand", !.val = Shr[d.out, 11]]
    /\ call' = Called("rand", i, Zero, Zero, <<>>)
    /\ err' = "none"
    /\ lst' = <<>>
    /\ UNCHANGED <<pc, fr, idx>>

\* self.randint(a, b) up to the first draw of its loop, called by `caller`.
\* An exception ends the caller too.
CallRandint(i, a, b, caller) ==
    LET e == randint_entry(a, b)
    IN IF e.kind = "raise"
       THEN /\ err' = "ValueError"
            /\ pc' = "idle"
            /\ fr' = NoFrame
            /\ UNCHANGED <<gen, hist>>
       ELSE IF e.kind = "fallback"
       THEN \* a + (self.rand_uint64() % (b - a + 1)) with b - a + 1 = 0
            /\ \E d \in {rand_uint64(gen[i])} : Stepped(i, d)
            /\ err' = "ZeroDivisionError"
            /\ pc' = "idle"
            /\ fr' = NoFrame
       ELSE /\ fr' = [self |-> i, a |-> a, b |-> b, width |-> e.width,
                      mask |-> e.mask, caller |-> caller, val |-> Zero]
            /\ pc' = "randint"
            /\ err' = "none"
            /\ UNCHANGED <<gen, hist>>

\* pr.randint(a, b)
Randint(i, a, b) ==
    /\ pc = "idle"
    /\ hist[i].steps < MaxSteps
    /\ CallRandint(i, a, b, "user")
    /\ call' = Called("randint", i, a, b, <<>>)
    /\ ret' = NoRet
    /\ lst' = <<>>
    /\ UNCHANGED idx

\* One iteration of randint's "while True".
RandintDraw ==
    /\ pc = "randint"
    /\ \E d \in {rand_uint64(gen[fr.self])} : \E r \in {And[d.out, fr.mask]} :
          /\ Stepped(fr.self, d)
          /\ IF accepted(r, fr.width)
             THEN IF fr.caller = "user"
                  THEN /\ pc' = "idle"
                       /\ ret' = [NoRet EXCEPT !.op = "randint", !.val = Add[fr.a, r]]
                       /\ fr' = NoFrame
                  ELSE /\ pc' = IF fr.caller = "choice" THEN "choice_ret"
                                ELSE "shuffle_ret"
                       /\ fr' = [fr EXCEPT !.val = Add[fr.a, r]]
                       /\ ret' = ret
             ELSE UNCHANGED <<pc, fr, ret>>
    /\ UNCHANGED <<lst, idx, err, call>>

\* pr.choice(s)
Choice(i, s) ==
    /\ pc = "idle"
    /\ hist[i].steps < MaxSteps
    /\ IF empty_seq(s)
       THEN /\ err' = "IndexError"
            /\ UNCHANGED <<gen, hist, pc, fr>>
       ELSE CallRandint(i, Zero, Num(Len(s) - 1), "choice")
    /\ call' = Called("choice", i, Zero, Zero, s)
    /\ lst' = s
    /\ ret' = NoRet
    /\ UNCHANGED idx

\* choice, once randint has returned: return seq[idx]
ChoiceReturn ==
    /\ pc = "choice_ret"
    /\ ret' = [NoRet EXCEPT !.op = "choice", !.elem = lst[Index(fr.val) + 1]]
    /\ pc' = "idle"
    /\ fr' = NoFrame
    /\ UNCHANGED <<gen, hist, lst, idx, err, call>>

\* pr.shuffle(l): the for loop up to its first randint call
Shuffle(i, l) ==
    /\ pc = "idle"
    /\ hist[i].steps < MaxSteps
    /\ IF Len(l) - 1 >= 1
       THEN /\ idx' = Len(l) - 1
            /\ CallRandint(i, Zero, Num(Len(l) - 1), "shuffle")
       ELSE /\ idx' = 0
            /\ err' = "none"
            /\ UNCHANGED <<gen, hist, pc, fr>>
    /\ call' = Called("shuffle", i, Zero, Zero, l)
    /\ lst' = l
    /\ ret' = NoRet

\* shuffle, once randint has returned j: the swap, and the next iteration
ShuffleSwap ==
    /\ pc = "shuffle_ret"
    /\ lst' = swap(lst, idx, Index(fr.val))
    /\ IF idx - 1 >= 1
       THEN /\ idx' = idx - 1
            /\ CallRandint(fr.self, Zero, Num(idx - 1), "shuffle")
       ELSE /\ idx' = 0
            /\ pc' = "idle"
            /\ fr' = NoFrame
            /\ UNCHANGED <<gen, hist, err>>
    /\ UNCHANGED <<ret, call>>

Init == InitWith({SEED_DEMO})

\* One owner, one generator object: every operation of the class.
Next ==
    \/ \E sd \in Seeds : Seed(1, sd)
    \/ RandUint64(1)
    \/ Rand(1)
    \/ \E a \in Ints, b \in Ints : Randint(1, a, b)
    \/ RandintDraw
    \/ \E s \in Lists : Choice(1, s)
    \/ ChoiceReturn
    \/ \E l \in Lists : Shuffle(1, l)
    \/ ShuffleSwap

Spec == Init /\ [][Next]_vars

\* The calls run to completion: a call in progress takes its next step.
LiveSpec ==
    Spec /\ WF_vars(RandintDraw) /\ WF_vars(ChoiceReturn) /\ WF_vars(ShuffleSwap)

\* Two objects, each constructed with a seed of its own, reseeded and
\* stepped in any order.
InitDet == InitWith(Seeds)

NextDet ==
    \/ \E i \in Inst, sd \in Seeds : Seed(i, sd)
    \/ \E i \in Inst : RandUint64(i)

SpecDet == InitDet /\ [][NextDet]_vars


(***************************************************************************)
(* Properties                                                              *)
(***************************************************************************)
Min(m, n) == IF m <= n THEN m ELSE n

Count(l, e) == Cardinality({k \in 1..Len(l) : l[k] = e})

\* The raw outputs of n steps of object g.
RECURSIVE raw_outputs(_, _)
raw_outputs(g, n) ==
    IF n = 0 THEN <<>>
    ELSE LET d == rand_uint64(g) IN <<d.out>> \o raw_outputs(d.g, n - 1)

\* The raw step as section 4.2 of the specification words it: the xorshift
\* update with 0 replaced by all-ones, the Weyl advance, then
\* z = state + weyl + counter on the updated state, the counter's increment
\* and the scramble.
spec_step(g0) ==
    LET state == IF xorshift[g0.state] = Zero THEN ALL_ONES ELSE xorshift[g0.state]
        weyl == And[Add[g0.weyl, g0.weyl_step], MASK64]
        z == And[Add[Add[state, weyl], g0.counter], MASK64]
    IN [g |-> [g0 EXCEPT !.state = state, !.weyl = weyl,
                         !.counter = And[Add[g0.counter, One], MASK64]],
        out |-> scramble[z]]

\* The smallest all-ones bitmask covering width - 1.
smallest_mask(width) == Sub[Shl[One, bit_length[Sub[width, One]]], One]

\* C1. Determinism: two generator objects last seeded with the same seed
\* have produced the same raw outputs, step for step, as far as both have
\* gone, and after the same number of steps they hold the same state, weyl
\* and counter.
C1_Determinism ==
    \A i \in Inst, j \in Inst :
        hist[i].seed = hist[j].seed =>
            /\ \A k \in 1..Min(hist[i].steps, hist[j].steps) :
                   hist[i].outs[k] = hist[j].outs[k]
            /\ hist[i].steps = hist[j].steps => gen[i] = gen[j]

\* Two constructed objects with the same seed, one two steps on, the other
\* one step on.
C1_Witness ==
    /\ hist[1].seed = hist[2].seed
    /\ ~hist[1].reseeded /\ ~hist[2].reseeded
    /\ hist[1].steps = 2 /\ hist[2].steps = 1

\* C2. Error contracts: randint(a, b) with a > b has raised ValueError and
\* choice of an empty sequence has raised IndexError, and the generator
\* object is as it was before the call: no raw step was taken.
C2_ErrorContracts ==
    /\ (call.op = "randint" /\ Gt(call.a, call.b)) =>
           /\ err = "ValueError"
           /\ pc = "idle"
           /\ gen[call.self] = call.pre
    /\ (call.op = "choice" /\ call.arg = <<>>) =>
           /\ err = "IndexError"
           /\ pc = "idle"
           /\ gen[call.self] = call.pre

\* randint(a, b) with a > b has failed on a generator that had taken steps.
C2_Witness ==
    /\ call.op = "randint"
    /\ Gt(call.a, call.b)
    /\ err = "ValueError"
    /\ call.pre.counter # Zero

\* C3. Range correctness: a value returned by randint(a, b), to the caller
\* or to choice and shuffle, lies in [a, b], and equals a when a = b.
C3_RangeCorrect ==
    /\ ret.op = "randint" =>
           /\ Le(call.a, ret.val) /\ Le(ret.val, call.b)
           /\ call.a = call.b => ret.val = call.a
    /\ pc \in {"choice_ret", "shuffle_ret"} =>
           /\ Le(fr.a, fr.val) /\ Le(fr.val, fr.b)
           /\ fr.a = fr.b => fr.val = fr.a

\* randint(a, b) with a < b has returned b.
C3_Witness ==
    /\ ret.op = "randint"
    /\ Lt[call.a, call.b]
    /\ ret.val = call.b

\* C4. Shuffle is a permutation: during and after shuffle(list) the list
\* has the length and the multiset of elements it had at the call.
C4_ShufflePermutes ==
    call.op = "shuffle" =>
        /\ Len(lst) = Len(call.arg)
        /\ \A e \in Elems : Count(lst, e) = Count(call.arg, e)

\* shuffle has returned with a list of three elements in another order.
C4_Witness ==
    /\ call.op = "shuffle"
    /\ pc = "idle"
    /\ Len(lst) = 3
    /\ lst # call.arg

\* C5. Reseed equals fresh construction: right after seed(s) the object is
\* the one a fresh construction with s yields, with counter 0, and the raw
\* outputs since a reseed are those of the fresh object.
C5_ReseedIsFresh ==
    /\ call.op = "seed" =>
           /\ gen[call.self] = construct(call.a)
           /\ gen[call.self].counter = Zero
    /\ \A i \in Inst :
           hist[i].reseeded =>
               hist[i].outs = raw_outputs(construct(hist[i].seed), hist[i].steps)

\* A reseed of an object that had taken steps, with a seed that changes
\* its state.
C5_Witness ==
    /\ call.op = "seed"
    /\ call.pre.counter # Zero
    /\ call.pre.state # gen[call.self].state

\* C6. Non-degeneracy: the state register is never 0.
C6_StateNonZero == \A i \in Inst : gen[i].state # Zero

\* Two steps on from the seed whose splitmix64 value is 0.
C6_Witness ==
    /\ hist[1].seed = SEED_ZERO_STATE
    /\ hist[1].steps >= 2

\* C7. Rejection mask: the mask of the running randint call is the smallest
\* all-ones bitmask covering width - 1.
C7_MinimalMask == pc = "randint" => fr.mask = smallest_mask(fr.width)

\* C8. Raw step combine: the value scrambled by the last raw step is
\* (state + weyl + counter before the increment) mod 2^64 of the object as
\* the step left it, the output is its scramble, and a rand_uint64 call
\* leaves the object and returns the value of the specification's step.
C8_StepCombine ==
    /\ \A i \in Inst :
           hist[i].steps > 0 =>
               /\ hist[i].z = And[Add[Add[gen[i].state, gen[i].weyl],
                                      Sub[gen[i].counter, One]], MASK64]
               /\ hist[i].outs[hist[i].steps] = scramble[hist[i].z]
    /\ call.op = "rand_uint64" =>
           /\ gen[call.self] = spec_step(call.pre).g
           /\ ret.val = spec_step(call.pre).out

\* A rand_uint64 call on an object whose counter was not 0.
C8_Witness ==
    /\ call.op = "rand_uint64"
    /\ call.pre.counter # Zero

\* C9. Rejection loop termination: the accepted values are at least half of
\* the masked range, the loop is left on exactly the draws whose masked
\* value is below width, and every call in progress returns.
C9_Termination ==
    /\ [](pc = "randint" => Le(Add[fr.mask, One], Add[fr.width, fr.width]))
    /\ [][pc = "randint" =>
            (pc' # "randint" <=>
                Lt[And[hist'[fr.self].outs[hist'[fr.self].steps], fr.mask],
                   fr.width])]_vars
    /\ (pc # "idle") ~> (pc = "idle")

\* A randint call still in its loop after a rejected draw.
C9_Witness ==
    /\ pc = "randint"
    /\ fr.caller = "user"
    /\ gen[fr.self].counter # call.pre.counter

\* C10. Weyl/counter lock-step: counter is the number of raw steps since
\* the last seeding, weyl is the seeded weyl plus counter * weyl_step
\* mod 2^64, and weyl_step is 0x9E3779B97F4A7C15.
C10_LockStep ==
    \A i \in Inst :
        /\ gen[i].counter = Num(hist[i].steps)
        /\ gen[i].weyl =
               And[Add[hist[i].weyl0, Mul[Num(hist[i].steps), GOLDEN]], MASK64]
        /\ gen[i].weyl_step = GOLDEN

\* shuffle has returned after three raw steps or more.
C10_Witness ==
    /\ call.op = "shuffle"
    /\ pc = "idle"
    /\ hist[1].steps >= 3

====
